---- MODULE Spec2Model ----
(***************************************************************************)
(* Model of scripts/validate-github-actions.py and scripts/validate-yaml.py *)
(* of FHIR-Tech/fhir-ai-backend: the per-file validators and the two main   *)
(* loops that count valid and invalid files and choose the exit status.     *)
(*                                                                          *)
(* Strings are sequences of one-character strings, so that Python's         *)
(* substring test (`in` on a str) and str.lower() are computed, not         *)
(* assumed.  A YAML node is a record [tag, s, keys, items]:                 *)
(*   source text : tag in {"map","seq","plain","quoted"}                    *)
(*   loaded value: tag in {"map","seq","str","bool","int","null"}           *)
(* For a loaded scalar, s is Python's str() of the value ("True", "None").  *)
(* A mapping keeps its keys and its values in two parallel sequences, in    *)
(* declaration order (Python dicts keep insertion order).                   *)
(***************************************************************************)
EXTENDS Naturals, Sequences, FiniteSets

\* ------------------------------------------------------------------ bounds

\* Largest number of jobs plus steps in a generated `jobs` mapping.
MaxNodes == 3

\* Largest number of files a run discovers.
MaxFiles == 2

\* ----------------------------------------------------------------- strings

S_name == <<"n","a","m","e">>
S_on == <<"o","n">>
S_ON == <<"O","N">>
S_On == <<"O","n">>
S_true == <<"t","r","u","e">>
S_false == <<"f","a","l","s","e">>
S_jobs == <<"j","o","b","s">>
S_runs_on == <<"r","u","n","s","-","o","n">>
S_steps == <<"s","t","e","p","s">>
S_uses == <<"u","s","e","s">>
S_run == <<"r","u","n">>
S_env == <<"e","n","v">>
S_null == <<"n","u","l","l">>
S_True == <<"T","r","u","e">>
S_False == <<"F","a","l","s","e">>
S_None == <<"N","o","n","e">>
S_CI == <<"C","I">>
S_push == <<"p","u","s","h">>
S_ubuntu == <<"u","b","u","n","t","u">>
S_checkout == <<"c","o","_","v","4">>
S_make == <<"m","a","k","e">>
S_lint == <<"l","i","n","t">>
S_seven == <<"7">>

\* the job names a generated document draws from
JobNamePool == << <<"b">>, <<"a">> >>

Digit == <<"0","1","2","3","4","5","6","7","8","9">>

\* str(n) for a natural number
RECURSIVE PyStrNat(_)
PyStrNat(n) ==
    IF n < 10 THEN << Digit[n + 1] >>
    ELSE PyStrNat(n \div 10) \o << Digit[(n % 10) + 1] >>

UpperChars == <<"A","B","C","D","E","F","G","H","I","J","K","L","M",
                "N","O","P","Q","R","S","T","U","V","W","X","Y","Z">>
LowerChars == <<"a","b","c","d","e","f","g","h","i","j","k","l","m",
                "n","o","p","q","r","s","t","u","v","w","x","y","z">>

LowerChar(c) ==
    IF \E i \in 1..26 : UpperChars[i] = c
    THEN LowerChars[CHOOSE i \in 1..26 : UpperChars[i] = c]
    ELSE c

\* str.lower()
PyLower(s) == [i \in 1..Len(s) |-> LowerChar(s[i])]

\* `needle in s` for two str values
IsSubstring(needle, s) ==
    \E k \in 0..Len(s) :
        /\ k + Len(needle) <= Len(s)
        /\ \A i \in 1..Len(needle) : s[k + i] = needle[i]

IsDigits(s) ==
    /\ Len(s) > 0
    /\ \A i \in 1..Len(s) : \E d \in 1..10 : Digit[d] = s[i]

\* ------------------------------------------------------------------- nodes

Node(t, str, ks, its) == [tag |-> t, s |-> str, keys |-> ks, items |-> its]

\* source text
Plain(str) == Node("plain", str, <<>>, <<>>)
Quoted(str) == Node("quoted", str, <<>>, <<>>)
SrcSeq(its) == Node("seq", <<>>, <<>>, its)
SrcMap(ks, vs) == Node("map", <<>>, ks, vs)

\* loaded values
PyStrV(str) == Node("str", str, <<>>, <<>>)
PyTrue == Node("bool", S_True, <<>>, <<>>)
PyFalse == Node("bool", S_False, <<>>, <<>>)
PyNone == Node("null", S_None, <<>>, <<>>)
PyInt(str) == Node("int", str, <<>>, <<>>)

\* YAML 1.1 plain scalars that load as booleans and as null
BoolTrueWords == { <<"y","e","s">>, <<"Y","e","s">>, <<"Y","E","S">>,
                   S_true, S_True, <<"T","R","U","E">>,
                   S_on, S_On, S_ON }
BoolFalseWords == { <<"n","o">>, <<"N","o">>, <<"N","O">>,
                    S_false, S_False, <<"F","A","L","S","E">>,
                    <<"o","f","f">>, <<"O","f","f">>, <<"O","F","F">> }
NullWords == { <<>>, <<"~">>, S_null, <<"N","u","l","l">>, <<"N","U","L","L">> }

\* the value yaml.safe_load gives a scalar
ResolveScalar(n) ==
    IF n.tag = "quoted" THEN PyStrV(n.s)
    ELSE IF n.s \in BoolTrueWords THEN PyTrue
    ELSE IF n.s \in BoolFalseWords THEN PyFalse
    ELSE IF n.s \in NullWords THEN PyNone
    ELSE IF IsDigits(n.s) THEN PyInt(n.s)
    ELSE PyStrV(n.s)

\* yaml.safe_load of well-formed text
RECURSIVE safe_load(_)
safe_load(n) ==
    IF n.tag = "map"
    THEN Node("map", <<>>,
              [i \in 1..Len(n.keys) |-> safe_load(n.keys[i])],
              [i \in 1..Len(n.items) |-> safe_load(n.items[i])])
    ELSE IF n.tag = "seq"
    THEN Node("seq", <<>>, <<>>, [i \in 1..Len(n.items) |-> safe_load(n.items[i])])
    ELSE ResolveScalar(n)

\* ---------------------------------------------------------- Python values

\* position of the first key of mapping m that is the str k, 0 when there is none
KeyIndex(m, k) ==
    IF \E i \in 1..Len(m.keys) : m.keys[i] = PyStrV(k)
    THEN CHOOSE i \in 1..Len(m.keys) :
            /\ m.keys[i] = PyStrV(k)
            /\ \A j \in 1..(i - 1) : m.keys[j] # PyStrV(k)
    ELSE 0

\* `k in c` for a str k: "yes", "no", or "raise" (TypeError: not iterable)
PyIn(k, c) ==
    IF c.tag = "map" THEN (IF KeyIndex(c, k) > 0 THEN "yes" ELSE "no")
    ELSE IF c.tag = "seq"
    THEN (IF \E i \in 1..Len(c.items) : c.items[i] = PyStrV(k) THEN "yes" ELSE "no")
    ELSE IF c.tag = "str" THEN (IF IsSubstring(k, c.s) THEN "yes" ELSE "no")
    ELSE "raise"

\* str(v); a scalar keeps its str() in s
PyStr(v) ==
    IF v.tag = "map" THEN <<"{", ".", ".", ".", "}">>
    ELSE IF v.tag = "seq" THEN <<"[", ".", ".", ".", "]">>
    ELSE v.s

\* what `for x in c` iterates over; only asked when CanIterate(c)
CanIterate(c) == c.tag \in {"map", "seq", "str"}

IterItems(c) ==
    IF c.tag = "map" THEN c.keys
    ELSE IF c.tag = "seq" THEN c.items
    ELSE [i \in 1..Len(c.s) |-> PyStrV(<< c.s[i] >>)]

\* ------------------------------------------------------------------ issues

M_name == "Missing 'name' field"
M_on == "Missing 'on' field (triggers)"
M_jobs == "Missing 'jobs' field"
M_runs_on == "Job '{job}' missing 'runs-on' field"
M_steps == "Job '{job}' missing 'steps' field"
M_step_name == "Job '{job}' step {i+1} missing 'name' field"
M_step_action == "Job '{job}' step '{label}' missing 'uses' or 'run' field"
M_yaml == "YAML syntax error: {e}"
M_read == "Error reading file: {e}"
M_plain == "{e}"

\* one formatted message: the format string and the values put into it
Issue(m, j, i, l) == [msg |-> m, job |-> j, step |-> i, label |-> l]
DocIssue(m) == Issue(m, <<>>, <<>>, <<>>)
ErrIssue(m, e) == Issue(m, <<>>, <<>>, << e >>)

\* the running state of the try block: the issues list and the exception, if any
Acc(is, e) == [issues |-> is, exc |-> e]
Raise(acc, e) == Acc(acc.issues, e)
Append_(acc, i) == Acc(Append(acc.issues, i), acc.exc)

\* ------------------------------------- validate_github_actions_workflow

NoExc == "none"
Raised(acc) == acc.exc # NoExc

\* has_on_field without the `key is True` alternative
has_on_field_StrOnly(workflow) ==
    \E i \in 1..Len(workflow.keys) : PyLower(PyStr(workflow.keys[i])) = S_on

\* the loop over workflow.keys(): some key is 'on' in any letter case, or is True
has_on_field(workflow) ==
    \E i \in 1..Len(workflow.keys) :
        \/ PyLower(PyStr(workflow.keys[i])) = S_on
        \/ workflow.keys[i] = PyTrue

\* step.get('name', f'{i+1}') formatted into the message
StepLabel(step, i) ==
    IF KeyIndex(step, S_name) > 0
    THEN PyStr(step.items[KeyIndex(step, S_name)])
    ELSE PyStrNat(i)

\* the body of `for i, step in enumerate(...)` for the step at 1-based position i
CheckStep(job_name, step, i, acc) ==
    LET n == PyIn(S_name, step)
        a1 == IF n = "raise" THEN Raise(acc, "TypeError")
              ELSE IF n = "no"
              THEN Append_(acc, Issue(M_step_name, PyStr(job_name), PyStrNat(i), <<>>))
              ELSE acc
        u == PyIn(S_uses, step)
        r == PyIn(S_run, step)
    IN  IF Raised(a1) THEN a1
        ELSE IF u = "raise" THEN Raise(a1, "TypeError")
        ELSE IF u = "yes" THEN a1
        ELSE IF r = "raise" THEN Raise(a1, "TypeError")
        ELSE IF r = "yes" THEN a1
        ELSE IF step.tag # "map" THEN Raise(a1, "AttributeError")
        ELSE Append_(a1, Issue(M_step_action, PyStr(job_name), <<>>, StepLabel(step, i)))

RECURSIVE CheckSteps(_, _, _, _)
CheckSteps(job_name, steps, i, acc) ==
    IF Raised(acc) \/ i > Len(steps) THEN acc
    ELSE CheckSteps(job_name, steps, i + 1, CheckStep(job_name, steps[i], i, acc))

\* the body of `for job_name, job_config in workflow['jobs'].items()`
CheckJob(job_name, job_config, acc) ==
    LET ro == PyIn(S_runs_on, job_config)
        a1 == IF ro = "raise" THEN Raise(acc, "TypeError")
              ELSE IF ro = "no"
              THEN Append_(acc, Issue(M_runs_on, PyStr(job_name), <<>>, <<>>))
              ELSE acc
        st == PyIn(S_steps, job_config)
    IN  IF Raised(a1) THEN a1
        ELSE IF st = "raise" THEN Raise(a1, "TypeError")
        ELSE IF st = "no"
        THEN Append_(a1, Issue(M_steps, PyStr(job_name), <<>>, <<>>))
        \* job_config['steps'] on a list or a str: TypeError
        ELSE IF job_config.tag # "map" THEN Raise(a1, "TypeError")
        ELSE LET steps == job_config.items[KeyIndex(job_config, S_steps)]
             IN  IF ~CanIterate(steps) THEN Raise(a1, "TypeError")
                 ELSE CheckSteps(job_name, IterItems(steps), 1, a1)

\* CheckJobs visiting the jobs last to first instead of in declaration order
RECURSIVE CheckJobs_Reversed(_, _, _)
CheckJobs_Reversed(jobs, k, acc) ==
    IF Raised(acc) \/ k > Len(jobs.keys) THEN acc
    ELSE CheckJobs_Reversed(jobs, k + 1,
            CheckJob(jobs.keys[Len(jobs.keys) + 1 - k],
                     jobs.items[Len(jobs.keys) + 1 - k], acc))

RECURSIVE CheckJobs(_, _, _)
CheckJobs(jobs, k, acc) ==
    IF Raised(acc) \/ k > Len(jobs.keys) THEN acc
    ELSE CheckJobs(jobs, k + 1, CheckJob(jobs.keys[k], jobs.items[k], acc))

\* lines 21-22: `if 'name' not in workflow`
NameRule(workflow, acc) ==
    LET n == PyIn(S_name, workflow)
    IN  IF Raised(acc) THEN acc
        ELSE IF n = "raise" THEN Raise(acc, "TypeError")
        ELSE IF n = "no" THEN Append_(acc, DocIssue(M_name))
        ELSE acc

\* lines 25-32: workflow.keys() exists on a dict only
OnRule(workflow, acc) ==
    IF Raised(acc) THEN acc
    ELSE IF workflow.tag # "map" THEN Raise(acc, "AttributeError")
    ELSE IF ~has_on_field(workflow) THEN Append_(acc, DocIssue(M_on))
    ELSE acc

\* JobsRule that reports nothing
JobsRule_Silent(workflow, acc) ==
    IF Raised(acc) THEN acc
    ELSE IF PyIn(S_jobs, workflow) = "raise" THEN Raise(acc, "TypeError")
    ELSE acc

\* lines 34-35: `if 'jobs' not in workflow`
JobsRule(workflow, acc) ==
    LET j == PyIn(S_jobs, workflow)
    IN  IF Raised(acc) THEN acc
        ELSE IF j = "raise" THEN Raise(acc, "TypeError")
        ELSE IF j = "no" THEN Append_(acc, DocIssue(M_jobs))
        ELSE acc

\* lines 38-52: `if 'jobs' in workflow`, then the loop; .items() exists on a
\* dict only
JobsLoop(workflow, acc) ==
    LET j == PyIn(S_jobs, workflow)
    IN  IF Raised(acc) THEN acc
        ELSE IF j = "raise" THEN Raise(acc, "TypeError")
        ELSE IF j = "no" THEN acc
        ELSE IF workflow.tag # "map" THEN Raise(acc, "TypeError")
        ELSE LET jobs == workflow.items[KeyIndex(workflow, S_jobs)]
             IN  IF jobs.tag # "map" THEN Raise(acc, "AttributeError")
                 ELSE CheckJobs(jobs, 1, acc)

\* the try block after the load, lines 18-54
CheckWorkflow(workflow) ==
    JobsLoop(workflow,
        JobsRule(workflow,
            OnRule(workflow,
                NameRule(workflow, Acc(<<>>, NoExc)))))

\* a file: unreadable, text that is not YAML, or text that is
Unreadable == [kind |-> "unreadable", text |-> Plain(<<>>)]
Malformed == [kind |-> "malformed", text |-> Plain(<<>>)]
Text(src) == [kind |-> "text", text |-> src]

Result(p, is) == [parsed |-> p, issues |-> is]

validate_github_actions_workflow(file) ==
    IF file.kind = "unreadable" THEN Result(FALSE, << ErrIssue(M_read, "OSError") >>)
    ELSE IF file.kind = "malformed" THEN Result(FALSE, << ErrIssue(M_yaml, "YAMLError") >>)
    ELSE LET acc == CheckWorkflow(safe_load(file.text))
         IN  IF Raised(acc) THEN Result(FALSE, << ErrIssue(M_read, acc.exc) >>)
             ELSE Result(TRUE, acc.issues)

\* validate_yaml_file of validate-yaml.py: (True, None) or (False, message)
validate_yaml_file(file) ==
    IF file.kind = "unreadable" THEN Result(FALSE, << ErrIssue(M_read, "OSError") >>)
    ELSE IF file.kind = "malformed" THEN Result(FALSE, << ErrIssue(M_plain, "YAMLError") >>)
    ELSE Result(TRUE, <<>>)

\* ------------------------------------------------------ generated documents

\* the values a step takes: the six mappings over name and uses/run, and null
StepMaps ==
    { SrcMap(nk \o ak, nv \o av) :
        <<nk, nv>> \in { << <<>>, <<>> >>, << <<Plain(S_name)>>, <<Plain(S_lint)>> >> },
        <<ak, av>> \in { << <<>>, <<>> >>,
                         << <<Plain(S_uses)>>, <<Plain(S_checkout)>> >>,
                         << <<Plain(S_run)>>, <<Plain(S_make)>> >> } }
StepVals == StepMaps \cup { Plain(S_null) }

\* the sequences of n steps
RECURSIVE StepSeqs(_)
StepSeqs(n) ==
    IF n = 0 THEN { <<>> }
    ELSE { Append(ss, st) : ss \in StepSeqs(n - 1), st \in StepVals }

RunsOnOpts == { << <<>>, <<>> >>, << <<Plain(S_runs_on)>>, <<Plain(S_ubuntu)>> >> }

\* the values a job with n steps takes; with none, also the wrong shapes
JobVals(n) ==
    IF n = 0
    THEN { SrcMap(rk \o sk, rv \o sv) :
            <<rk, rv>> \in RunsOnOpts,
            <<sk, sv>> \in { << <<>>, <<>> >>,
                             << <<Plain(S_steps)>>, <<SrcSeq(<<>>)>> >>,
                             << <<Plain(S_steps)>>, <<Plain(S_null)>> >> } }
         \cup { Plain(S_null) }
    ELSE { SrcMap(rk \o <<Plain(S_steps)>>, rv \o <<SrcSeq(ss)>>) :
            <<rk, rv>> \in RunsOnOpts, ss \in StepSeqs(n) }

\* the lists of k job values with at most `budget` steps between them
RECURSIVE JobLists(_, _)
JobLists(k, budget) ==
    IF k = 0 THEN { <<>> }
    ELSE UNION { { <<j>> \o rest : j \in JobVals(n), rest \in JobLists(k - 1, budget - n) } :
                 n \in 0..budget }

\* the lists of k different job names
RECURSIVE NameSeqs(_)
NameSeqs(k) ==
    IF k = 0 THEN { <<>> }
    ELSE LET more == { Append(ns, Plain(JobNamePool[i])) :
                        ns \in NameSeqs(k - 1), i \in 1..Len(JobNamePool) }
         IN  { q \in more : \A a \in 1..(k - 1) : q[a] # q[k] }

\* every `jobs` mapping of at most MaxNodes jobs and steps
JobsMaps ==
    UNION { { SrcMap(ns, js) : ns \in NameSeqs(k), js \in JobLists(k, MaxNodes - k) } :
            k \in { x \in 0..Len(JobNamePool) : x <= MaxNodes } }

GoodStep == SrcMap(<<Plain(S_name), Plain(S_run)>>, <<Plain(S_lint), Plain(S_make)>>)
JobOf(stepsVal) ==
    SrcMap(<<Plain(S_runs_on), Plain(S_steps)>>, <<Plain(S_ubuntu), stepsVal>>)
JobsOf(jobVal) == SrcMap(<<Plain(JobNamePool[1])>>, <<jobVal>>)
OneGoodJob == JobsOf(JobOf(SrcSeq(<<GoodStep>>)))

UsesStep == SrcMap(<<Plain(S_uses), Plain(S_name)>>, <<Plain(S_checkout), Plain(S_lint)>>)
TwoGoodJobs ==
    SrcMap(<<Plain(JobNamePool[1]), Plain(JobNamePool[2])>>,
           <<JobOf(SrcSeq(<<GoodStep, UsesStep>>)), JobOf(SrcSeq(<<UsesStep>>))>>)

\* `jobs` values of the wrong shape, the empty mapping, one and two complete jobs
JobsFew ==
    { Plain(S_null), Plain(S_make), SrcSeq(<<Plain(JobNamePool[1])>>),
      SrcMap(<<>>, <<>>), OneGoodJob, TwoGoodJobs }

\* str and list values where a mapping or a sequence is expected: Python's
\* `in` is then a substring or a membership test, and iteration goes over
\* characters or keys
JobsOdd ==
    { JobsOf(Plain(S_ubuntu)),
      JobsOf(Plain(S_steps)),
      JobsOf(Plain(S_runs_on \o <<" ">> \o S_steps)),
      JobsOf(SrcSeq(<<Plain(S_runs_on)>>)),
      JobsOf(SrcSeq(<<Plain(S_runs_on), Plain(S_steps)>>)),
      JobsOf(JobOf(Quoted(<<>>))),
      JobsOf(JobOf(Plain(S_make))),
      JobsOf(JobOf(Plain(S_seven))),
      JobsOf(JobOf(GoodStep)),
      JobsOf(JobOf(SrcSeq(<<Plain(S_make)>>))),
      JobsOf(JobOf(SrcSeq(<<Plain(S_name \o <<" ">> \o S_run)>>))),
      JobsOf(JobOf(SrcSeq(<<GoodStep, Plain(S_run)>>))),
      JobsOf(JobOf(SrcSeq(<<SrcSeq(<<Plain(S_name), Plain(S_uses)>>)>>))),
      JobsOf(JobOf(SrcSeq(<<SrcSeq(<<>>), GoodStep>>))) }

\* the trigger key as written: bare words load as booleans, quoted ones as str
TriggerKeys ==
    { Plain(S_on), Quoted(S_on), Plain(S_ON), Quoted(S_ON), Quoted(S_On),
      Plain(S_true), Quoted(S_true), Plain(S_false) }
TriggerFew == { Plain(S_on) }

Opt(keys, val) == { << <<>>, <<>> >> } \cup { << <<k>>, <<val>> >> : k \in keys }

\* a root mapping from optional name, trigger, env and jobs entries
RootMaps(triggers, extras, jobsVals, jobsAbsent) ==
    { SrcMap(n[1] \o t[1] \o e[1] \o j[1], n[2] \o t[2] \o e[2] \o j[2]) :
        n \in Opt({Plain(S_name)}, Plain(S_CI)),
        t \in Opt(triggers, Plain(S_push)),
        e \in Opt(extras, Plain(S_make)),
        j \in { << <<Plain(S_jobs)>>, <<v>> >> : v \in jobsVals }
              \cup (IF jobsAbsent THEN { << <<>>, <<>> >> } ELSE {}) }

\* roots that are not mappings
RootOthers ==
    { Plain(S_null), Plain(S_name), Plain(S_seven),
      SrcSeq(<<>>), SrcSeq(<<Plain(S_name), Plain(S_jobs)>>) }

Docs ==
    RootOthers
    \cup RootMaps(TriggerKeys, {Plain(S_env)}, JobsFew, TRUE)
    \cup RootMaps(TriggerFew, {}, JobsMaps \cup JobsOdd, FALSE)

Files == { Unreadable, Malformed } \cup { Text(d) : d \in Docs }

\* ------------------------------------------------------------------- state

VARIABLES
    file,            \* validate call: the file handed to the validator
    vpc,             \* validate call: "call", "returned", or "idle"
    ret,             \* validate call: the (parsed, issues) pair returned
    script,          \* run: "github-actions" or "yaml"
    disk,            \* run: what each discovered path holds
    workflow_files,  \* run: the paths as discovery lists them
    todo,            \* run: the part of sorted(workflow_files) not yet visited
    report,          \* run: the (path, result) pairs in the order printed
    valid_count,
    invalid_count,
    pc,              \* run: "start", "loop", "exit", or "idle"
    exit_status      \* run: <<>> while running, <<n>> once main returned n

vars == << file, vpc, ret, script, disk, workflow_files, todo, report,
           valid_count, invalid_count, pc, exit_status >>

callVars == << file, vpc, ret >>
runVars == << script, disk, workflow_files, todo, report,
              valid_count, invalid_count, pc, exit_status >>

NoResult == Result(FALSE, <<>>)

\* --------------------------------------------------- one validator call

CallIdle ==
    /\ file = Unreadable
    /\ vpc = "idle"
    /\ ret = NoResult

RunIdle ==
    /\ script = "github-actions"
    /\ disk = <<>>
    /\ workflow_files = <<>>
    /\ todo = <<>>
    /\ report = <<>>
    /\ valid_count = 0
    /\ invalid_count = 0
    /\ pc = "idle"
    /\ exit_status = <<>>

InitValidate ==
    /\ file \in Files
    /\ vpc = "call"
    /\ ret = NoResult
    /\ RunIdle

\* open() raises: lines 15, 58-59
OpenFails ==
    /\ vpc = "call"
    /\ file.kind = "unreadable"
    /\ ret' = validate_github_actions_workflow(file)
    /\ vpc' = "returned"
    /\ UNCHANGED << file, runVars >>

\* yaml.safe_load raises YAMLError: lines 16, 56-57
LoadFails ==
    /\ vpc = "call"
    /\ file.kind = "malformed"
    /\ ret' = validate_github_actions_workflow(file)
    /\ vpc' = "returned"
    /\ UNCHANGED << file, runVars >>

\* the text loads and the rules run: lines 16-54, 58-59
RunRules ==
    /\ vpc = "call"
    /\ file.kind = "text"
    /\ ret' = validate_github_actions_workflow(file)
    /\ vpc' = "returned"
    /\ UNCHANGED << file, runVars >>

NextValidate == OpenFails \/ LoadFails \/ RunRules

SpecValidate == InitValidate /\ [][NextValidate]_vars

\* ------------------------------------------------------------ the two runs

\* sorted(): insertion sort of a list of paths; a path is its rank in path order
RECURSIVE Insert(_, _)
Insert(x, s) ==
    IF s = <<>> THEN << x >>
    ELSE IF x <= Head(s) THEN << x >> \o s
    ELSE << Head(s) >> \o Insert(x, Tail(s))

RECURSIVE sorted(_)
sorted(s) == IF s = <<>> THEN <<>> ELSE Insert(Head(s), sorted(Tail(s)))

Paths == 1..MaxFiles

\* the lists of n different paths, in any order
RECURSIVE PathLists(_)
PathLists(n) ==
    IF n = 0 THEN { <<>> }
    ELSE LET more == { Append(l, q) : l \in PathLists(n - 1), q \in Paths }
         IN  { l \in more : \A a \in 1..(n - 1) : l[a] # l[n] }

RootOf(nameVal, jobsVal) ==
    SrcMap(nameVal \o <<Plain(S_on), Plain(S_jobs)>>,
           [i \in 1..Len(nameVal) |-> Plain(S_CI)] \o <<Plain(S_push), jobsVal>>)

\* what a discovered file may hold
SampleFiles ==
    { Unreadable, Malformed,
      Text(RootOf(<<Plain(S_name)>>, OneGoodJob)),
      Text(RootOf(<<>>, OneGoodJob)),
      Text(RootOf(<<Plain(S_name)>>, JobsOf(JobOf(SrcSeq(<<SrcMap(<<>>, <<>>)>>))))),
      Text(RootOf(<<Plain(S_name)>>, Plain(S_null))),
      Text(SrcSeq(<<Plain(S_name)>>)) }

Init ==
    /\ CallIdle
    /\ script \in { "github-actions", "yaml" }
    /\ \E n \in 0..MaxFiles : workflow_files \in PathLists(n)
    /\ disk \in [ { workflow_files[i] : i \in 1..Len(workflow_files) } -> SampleFiles ]
    /\ todo = <<>>
    /\ report = <<>>
    /\ valid_count = 0
    /\ invalid_count = 0
    /\ pc = "start"
    /\ exit_status = <<>>

\* `if not workflow_files: return 1`
NoFilesFound ==
    /\ pc = "start"
    /\ workflow_files = <<>>
    /\ exit_status' = << 1 >>
    /\ pc' = "exit"
    /\ UNCHANGED << callVars, script, disk, workflow_files, todo, report,
                    valid_count, invalid_count >>

\* StartLoop without the sort
StartLoop_Unsorted ==
    /\ pc = "start"
    /\ workflow_files # <<>>
    /\ todo' = workflow_files
    /\ pc' = "loop"
    /\ UNCHANGED << callVars, script, disk, workflow_files, report,
                    valid_count, invalid_count, exit_status >>

\* entering `for file_path in sorted(workflow_files)`
StartLoop ==
    /\ pc = "start"
    /\ workflow_files # <<>>
    /\ todo' = sorted(workflow_files)
    /\ pc' = "loop"
    /\ UNCHANGED << callVars, script, disk, workflow_files, report,
                    valid_count, invalid_count, exit_status >>

\* what one pass of the loop does with the result of its validator call
Count(path, result, valid) ==
    /\ report' = Append(report, [path |-> path, result |-> result])
    /\ valid_count' = IF valid THEN valid_count + 1 ELSE valid_count
    /\ invalid_count' = IF valid THEN invalid_count ELSE invalid_count + 1
    /\ todo' = Tail(todo)
    /\ UNCHANGED << callVars, script, disk, workflow_files, pc, exit_status >>

\* one pass of the loop of validate-github-actions.py: `if is_valid and not issues`
CheckWorkflowFile ==
    /\ pc = "loop"
    /\ script = "github-actions"
    /\ todo # <<>>
    /\ LET r == validate_github_actions_workflow(disk[Head(todo)])
       IN  Count(Head(todo), r, r.parsed /\ r.issues = <<>>)

\* one pass of the loop of validate-yaml.py: `if is_valid`
CheckYamlFile ==
    /\ pc = "loop"
    /\ script = "yaml"
    /\ todo # <<>>
    /\ LET r == validate_yaml_file(disk[Head(todo)])
       IN  Count(Head(todo), r, r.parsed)

\* Summarize that succeeds as soon as one file was valid
Summarize_AnyValid ==
    /\ pc = "loop"
    /\ todo = <<>>
    /\ exit_status' = IF valid_count > 0 THEN << 0 >> ELSE << 1 >>
    /\ pc' = "exit"
    /\ UNCHANGED << callVars, script, disk, workflow_files, todo, report,
                    valid_count, invalid_count >>

\* after the loop: lines 108-113
Summarize ==
    /\ pc = "loop"
    /\ todo = <<>>
    /\ exit_status' = IF invalid_count > 0 THEN << 1 >> ELSE << 0 >>
    /\ pc' = "exit"
    /\ UNCHANGED << callVars, script, disk, workflow_files, todo, report,
                    valid_count, invalid_count >>

Next == NoFilesFound \/ StartLoop \/ CheckWorkflowFile \/ CheckYamlFile \/ Summarize

Spec == Init /\ [][Next]_vars

\* -------------------------------------------------- vocabulary of the claims

\* the tree the validator call works on, when the file's text loads
Loaded == safe_load(file.text)
Returned == vpc = "returned"
LoadedText == Returned /\ file.kind = "text"

HasKey(m, k) == m.tag = "map" /\ \E i \in 1..Len(m.keys) : m.keys[i] = PyStrV(k)
ValueOf(m, k) == m.items[CHOOSE i \in 1..Len(m.keys) : m.keys[i] = PyStrV(k)]

DocumentScope == { M_name, M_on, M_jobs }
JobScope == { M_runs_on, M_steps }
StepScope == { M_step_name, M_step_action }

\* how many times issue x occurs in the list is
Occurrences(is, x) == Cardinality({ i \in 1..Len(is) : is[i] = x })

\* s[1] \o s[2] \o ... \o s[n] for a sequence of sequences
RECURSIVE Flat(_, _)
Flat(s, n) == IF n = 0 THEN <<>> ELSE Flat(s, n - 1) \o s[n]

\* a Result is clean when the file counts as valid
Clean(r) == r.parsed /\ r.issues = <<>>

\* ------------------------------------------------------------------ claims

\* C1: a run of validate-github-actions.py ends with exit status 0 exactly
\* when at least one file was discovered and the validator finds every
\* discovered file parsed with no issue; otherwise it ends with status 1.
C1_ExitStatus ==
    (pc = "exit" /\ script = "github-actions") =>
        /\ exit_status \in { << 0 >>, << 1 >> }
        /\ exit_status = << 0 >> <=>
            /\ Len(workflow_files) >= 1
            /\ \A i \in 1..Len(workflow_files) :
                    Clean(validate_github_actions_workflow(disk[workflow_files[i]]))

\* a run that fails although one of its two files is valid
C1_Witness ==
    /\ pc = "exit"
    /\ script = "github-actions"
    /\ exit_status = << 1 >>
    /\ valid_count = 1
    /\ invalid_count = 1

\* the steps sequence holds at least one step and each is a mapping with
\* `name` and `uses` or `run`
GoodSteps(ss) ==
    /\ ss.tag = "seq"
    /\ Len(ss.items) >= 1
    /\ \A i \in 1..Len(ss.items) :
        /\ HasKey(ss.items[i], S_name)
        /\ HasKey(ss.items[i], S_uses) \/ HasKey(ss.items[i], S_run)

GoodJobs(jobs) ==
    /\ jobs.tag = "map"
    /\ Len(jobs.keys) >= 1
    /\ \A k \in 1..Len(jobs.keys) :
        /\ HasKey(jobs.items[k], S_runs_on)
        /\ HasKey(jobs.items[k], S_steps)
        /\ GoodSteps(ValueOf(jobs.items[k], S_steps))

ValidMinimal(w) ==
    /\ HasKey(w, S_name)
    /\ HasKey(w, S_on) \/ \E i \in 1..Len(w.keys) : w.keys[i] = PyTrue
    /\ HasKey(w, S_jobs)
    /\ GoodJobs(ValueOf(w, S_jobs))

\* C2: a document with `name`, a trigger key ('on' or True) and `jobs` of at
\* least one job, every job with `runs-on` and at least one step, every step
\* with `name` and `uses` or `run`, is returned parsed with no issue.
C2_ValidMinimal ==
    (LoadedText /\ ValidMinimal(Loaded)) => ret = Result(TRUE, <<>>)

\* a valid document whose trigger key loaded as True and which has two jobs
C2_Witness ==
    /\ LoadedText
    /\ ValidMinimal(Loaded)
    /\ ~HasKey(Loaded, S_on)
    /\ Len(ValueOf(Loaded, S_jobs).keys) = 2

\* C3: a document that loads to something other than a mapping yields exactly
\* the one issue "root must be a mapping".
C3_RootShape ==
    (LoadedText /\ Loaded.tag # "map") =>
        ret = Result(TRUE, << DocIssue("root must be a mapping") >>)

\* C4: a wrong-shaped value below a root mapping never makes the evaluation
\* fail: the result is parsed and still holds the issues found before it.
C4_NeverRaises ==
    (LoadedText /\ Loaded.tag = "map") =>
        /\ ret.parsed
        /\ ~HasKey(Loaded, S_name) => Occurrences(ret.issues, DocIssue(M_name)) = 1

\* C5 as written: a root mapping without `jobs` yields exactly one
\* Document-scope issue and no Job- or Step-scope issue.
C5_Original ==
    (LoadedText /\ Loaded.tag = "map" /\ ~HasKey(Loaded, S_jobs)) =>
        /\ ret.parsed
        /\ Len(ret.issues) = 1
        /\ ret.issues[1].msg \in DocumentScope

\* some key is 'on' in any letter case or is True
TriggerPresent(w) ==
    \E i \in 1..Len(w.keys) :
        \/ w.keys[i] = PyTrue
        \/ w.keys[i].tag = "str" /\ PyLower(w.keys[i].s) = S_on

\* C5 amended: a root mapping without `jobs` yields the "Missing 'jobs' field"
\* issue once, as the last issue, before it the `name` and the `on` issue when
\* those keys are missing too, hence one to three Document-scope issues, and
\* no Job- or Step-scope issue.
C5_NoJobs ==
    (LoadedText /\ Loaded.tag = "map" /\ ~HasKey(Loaded, S_jobs)) =>
        /\ ret.parsed
        /\ ret.issues =
              (IF HasKey(Loaded, S_name) THEN <<>> ELSE << DocIssue(M_name) >>)
              \o (IF TriggerPresent(Loaded) THEN <<>> ELSE << DocIssue(M_on) >>)
              \o << DocIssue(M_jobs) >>
        /\ \A i \in 1..Len(ret.issues) : ret.issues[i].msg \in DocumentScope

\* a document with a trigger key and another key but neither name nor jobs
C5_Witness ==
    /\ LoadedText
    /\ Loaded.tag = "map"
    /\ ~HasKey(Loaded, S_jobs)
    /\ ~HasKey(Loaded, S_name)
    /\ HasKey(Loaded, S_env)
    /\ Len(ret.issues) = 2

\* C6: for a root mapping the "Missing 'on' field (triggers)" issue is in the
\* result exactly when no key is the str 'on' or the boolean True.
C6_TriggerKey ==
    (LoadedText /\ Loaded.tag = "map") =>
        (Occurrences(ret.issues, DocIssue(M_on)) = 1
            <=> ~(HasKey(Loaded, S_on) \/ \E i \in 1..Len(Loaded.keys) : Loaded.keys[i] = PyTrue))

\* the issues of the step at 1-based position i of job jn, in the order found
StepPart(jn, st, i) ==
    (IF PyIn(S_name, st) = "no"
     THEN << Issue(M_step_name, jn, PyStrNat(i), <<>>) >> ELSE <<>>)
    \o (IF PyIn(S_uses, st) = "no" /\ PyIn(S_run, st) = "no"
        THEN << Issue(M_step_action, jn, <<>>,
                      IF HasKey(st, S_name) THEN PyStr(ValueOf(st, S_name))
                      ELSE PyStrNat(i)) >>
        ELSE <<>>)

\* the issues of one job: runs-on, then steps, step by step
JobPart(jn, job) ==
    (IF PyIn(S_runs_on, job) = "no" THEN << Issue(M_runs_on, jn, <<>>, <<>>) >> ELSE <<>>)
    \o (IF PyIn(S_steps, job) = "no" THEN << Issue(M_steps, jn, <<>>, <<>>) >>
        ELSE LET ss == IterItems(ValueOf(job, S_steps))
             IN  Flat([i \in 1..Len(ss) |-> StepPart(jn, ss[i], i)], Len(ss)))

\* the issues of the document: name, on, jobs, then job by job as declared
DocPart(w) ==
    (IF HasKey(w, S_name) THEN <<>> ELSE << DocIssue(M_name) >>)
    \o (IF TriggerPresent(w) THEN <<>> ELSE << DocIssue(M_on) >>)
    \o (IF HasKey(w, S_jobs) THEN <<>> ELSE << DocIssue(M_jobs) >>)
    \o (IF HasKey(w, S_jobs)
        THEN LET jobs == ValueOf(w, S_jobs)
             IN  Flat([k \in 1..Len(jobs.keys) |->
                          JobPart(PyStr(jobs.keys[k]), jobs.items[k])],
                      Len(jobs.keys))
        ELSE <<>>)

\* rule order of the Document-scope issues; every Job- and Step-scope issue
\* comes after them
RuleRank(m) ==
    IF m = M_name THEN 1 ELSE IF m = M_on THEN 2 ELSE IF m = M_jobs THEN 3 ELSE 4

\* position of the job named jn in the `jobs` mapping of w
JobPosition(w, jn) ==
    LET jobs == ValueOf(w, S_jobs)
    IN  CHOOSE k \in 1..Len(jobs.keys) : PyStr(jobs.keys[k]) = jn

\* C7: the issue list is in discovery order: Document-scope issues first, in
\* rule order, then the issues job by job as the `jobs` mapping declares them;
\* whenever rules were evaluated the list is exactly the name, on and jobs
\* issues followed by every job's and step's issues in declaration order, none
\* left out because an earlier field is missing; the empty mapping yields
\* exactly the name, on and jobs issues.
C7_DiscoveryOrder ==
    LoadedText =>
        /\ \A i, j \in 1..Len(ret.issues) :
              i < j =>
                /\ RuleRank(ret.issues[i].msg) <= RuleRank(ret.issues[j].msg)
                /\ RuleRank(ret.issues[j].msg) < 4 =>
                      RuleRank(ret.issues[i].msg) < RuleRank(ret.issues[j].msg)
                /\ ret.issues[i].msg \in JobScope \cup StepScope =>
                      JobPosition(Loaded, ret.issues[i].job)
                          <= JobPosition(Loaded, ret.issues[j].job)
        /\ ret.parsed => ret.issues = DocPart(Loaded)
        /\ Loaded = Node("map", <<>>, <<>>, <<>>) =>
              ret = Result(TRUE, << DocIssue(M_name), DocIssue(M_on), DocIssue(M_jobs) >>)

\* jobs declared b then a, a missing name, and issues of both jobs, one of
\* them a step's
C7_Witness ==
    /\ LoadedText
    /\ ret.parsed
    /\ HasKey(Loaded, S_jobs)
    /\ ValueOf(Loaded, S_jobs).keys = << PyStrV(<<"b">>), PyStrV(<<"a">>) >>
    /\ ret.issues[1] = DocIssue(M_name)
    /\ \E i, j \in 1..Len(ret.issues) :
          /\ i < j
          /\ ret.issues[i].job = <<"b">>
          /\ ret.issues[i].msg \in StepScope
          /\ ret.issues[j].job = <<"a">>

\* the label the second step message gives the step at position i
LabelOf(st, i) == IF HasKey(st, S_name) THEN PyStr(ValueOf(st, S_name)) ELSE PyStrNat(i)

\* C8: in a job whose `steps` is a sequence, a mapping step at position i has
\* the "step <i> missing 'name'" issue exactly when it has no `name`, and the
\* "step '<label>' missing 'uses' or 'run'" issue exactly when it has neither;
\* a job mapping without `steps` has the "missing 'steps'" issue and no step
\* issue.
C8_StepIssues ==
    (LoadedText /\ HasKey(Loaded, S_jobs) /\ ValueOf(Loaded, S_jobs).tag = "map") =>
        LET jobs == ValueOf(Loaded, S_jobs)
        IN  \A k \in 1..Len(jobs.keys) :
              LET job == jobs.items[k]
                  jn == PyStr(jobs.keys[k])
              IN  /\ (job.tag = "map" /\ ~HasKey(job, S_steps)) =>
                        /\ Occurrences(ret.issues, Issue(M_steps, jn, <<>>, <<>>)) = 1
                        /\ \A x \in 1..Len(ret.issues) :
                              ret.issues[x].msg \in StepScope => ret.issues[x].job # jn
                  /\ (HasKey(job, S_steps) /\ ValueOf(job, S_steps).tag = "seq") =>
                        LET ss == ValueOf(job, S_steps).items
                        IN  \A i \in 1..Len(ss) :
                              ss[i].tag = "map" =>
                                /\ Occurrences(ret.issues,
                                               Issue(M_step_name, jn, PyStrNat(i), <<>>))
                                      = (IF HasKey(ss[i], S_name) THEN 0 ELSE 1)
                                /\ Occurrences(ret.issues,
                                               Issue(M_step_action, jn, <<>>, LabelOf(ss[i], i)))
                                      = Cardinality({ y \in 1..Len(ss) :
                                            /\ ss[y].tag = "map"
                                            /\ ~HasKey(ss[y], S_uses)
                                            /\ ~HasKey(ss[y], S_run)
                                            /\ LabelOf(ss[y], y) = LabelOf(ss[i], i) })

\* C9: the result is parsed=false exactly when the file could not be read or
\* its text could not be loaded, and then it holds the one error message.
C9_ParsedFalse ==
    Returned =>
        /\ ~ret.parsed <=> file.kind # "text"
        /\ ~ret.parsed =>
              /\ Len(ret.issues) = 1
              /\ ret.issues[1].msg \in { M_read, M_yaml }

\* the validator the running script calls
ScriptResult(f) ==
    IF script = "github-actions" THEN validate_github_actions_workflow(f)
    ELSE validate_yaml_file(f)

C10_Progress ==
    pc \in { "loop", "exit" } =>
        /\ valid_count + invalid_count = Len(report)
        /\ \A i, j \in 1..Len(report) : i < j => report[i].path < report[j].path
        /\ { report[i].path : i \in 1..Len(report) } \cup { todo[i] : i \in 1..Len(todo) }
              = { workflow_files[i] : i \in 1..Len(workflow_files) }
        /\ Len(report) + Len(todo) = Len(workflow_files)
        /\ \A i \in 1..Len(report) : report[i].result = ScriptResult(disk[report[i].path])
        /\ valid_count = Cardinality({ i \in 1..Len(report) : Clean(report[i].result) })
        /\ pc = "exit" => todo = <<>>

\* C10: a run visits every discovered file exactly once, in sorted path
\* order, whatever the earlier files were; each file gets the result of its own
\* validator call and counts as valid exactly when that result is parsed with
\* no issue; every pass of the loop has its file to hand, and the run ends
\* with valid_count + invalid_count equal to the number of discovered files.
C10_EveryFileCounted ==
    /\ C10_Progress
    /\ pc = "loop" /\ todo # <<>> => Head(todo) \in DOMAIN disk
    /\ pc \in { "start", "loop", "exit" }
    /\ (pc = "exit" /\ workflow_files # <<>>) =>
          valid_count + invalid_count = Len(workflow_files)

\* a finished run over two files listed out of order, the first visited unreadable
C10_Witness ==
    /\ pc = "exit"
    /\ Len(workflow_files) = 2
    /\ workflow_files[1] > workflow_files[2]
    /\ ~report[1].result.parsed
    /\ Clean(report[2].result)
    /\ valid_count = 1
    /\ invalid_count = 1

====
